---- MODULE Spec2Model ----
(***************************************************************************)
(* A model of REST_API_Health.py: a Flask service that keeps two SQLite    *)
(* tables (workouts, diets) behind marshmallow schemas.                    *)
(*                                                                         *)
(* Python str values are sequences of one-character strings, so that the   *)
(* SQL text operators the handlers use (=, BETWEEN, LIKE) and strptime /   *)
(* strftime are computed character by character.                           *)
(***************************************************************************)
EXTENDS Integers, Sequences, FiniteSets, TLC

VARIABLES workouts, diets, assignedW, assignedD, req, resp,
          prevWorkouts, prevDiets, lastDeleted

vars == <<workouts, diets, assignedW, assignedD, req, resp,
          prevWorkouts, prevDiets, lastDeleted>>

(***************************************************************************)
(* Bounds of the model.                                                    *)
(***************************************************************************)
MaxWorkouts == 2
MaxDiets == 2
MaxDietId == 2

(***************************************************************************)
(* Characters and text.                                                    *)
(***************************************************************************)
Digits == <<"0", "1", "2", "3", "4", "5", "6", "7", "8", "9">>
UpperCase == <<"A", "B", "C", "D", "E", "F", "G", "H", "I", "J", "K", "L", "M",
               "N", "O", "P", "Q", "R", "S", "T", "U", "V", "W", "X", "Y", "Z">>
LowerCase == <<"a", "b", "c", "d", "e", "f", "g", "h", "i", "j", "k", "l", "m",
               "n", "o", "p", "q", "r", "s", "t", "u", "v", "w", "x", "y", "z">>

IndexOf(seq, c) == CHOOSE i \in 1..Len(seq) : seq[i] = c
Occurs(seq, c) == \E i \in 1..Len(seq) : seq[i] = c

IsDigit(c) == Occurs(Digits, c)
DigitVal(c) == IndexOf(Digits, c) - 1

\* The byte of a character (ASCII), as SQLite's BINARY collation compares it.
Ord(c) ==
  IF IsDigit(c) THEN 48 + DigitVal(c)
  ELSE IF Occurs(UpperCase, c) THEN 64 + IndexOf(UpperCase, c)
  ELSE IF Occurs(LowerCase, c) THEN 96 + IndexOf(LowerCase, c)
  ELSE IF c = "%" THEN 37
  ELSE IF c = "-" THEN 45
  ELSE 95

\* SQLite's LIKE folds the case of ASCII letters.
Lower(c) == IF Occurs(UpperCase, c) THEN LowerCase[IndexOf(UpperCase, c)] ELSE c

\* memcmp order of two texts: s <= t.
RECURSIVE StrLE(_, _)
StrLE(s, t) ==
  IF s = <<>> THEN TRUE
  ELSE IF t = <<>> THEN FALSE
  ELSE IF Ord(Head(s)) # Ord(Head(t)) THEN Ord(Head(s)) < Ord(Head(t))
  ELSE StrLE(Tail(s), Tail(t))

\* SQL: x BETWEEN lo AND hi on TEXT values.
Between(x, lo, hi) == StrLE(lo, x) /\ StrLE(x, hi)

\* SQL: s LIKE p, with the wildcards % and _ and no escape character.
RECURSIVE Like(_, _)
Like(s, p) ==
  IF p = <<>> THEN s = <<>>
  ELSE IF Head(p) = "%" THEN Like(s, Tail(p)) \/ (s # <<>> /\ Like(Tail(s), p))
  ELSE IF s = <<>> THEN FALSE
  ELSE IF Head(p) = "_" THEN Like(Tail(s), Tail(p))
  ELSE Lower(Head(p)) = Lower(Head(s)) /\ Like(Tail(s), Tail(p))

\* str.startswith, the literal prefix test the summaries are specified by.
StartsWith(s, p) == Len(p) <= Len(s) /\ SubSeq(s, 1, Len(p)) = p

(***************************************************************************)
(* datetime: strptime(s, "%Y-%m-%d"), + timedelta(days), strftime.         *)
(***************************************************************************)
RECURSIVE StrToNat(_)
StrToNat(s) ==
  IF s = <<>> THEN 0
  ELSE StrToNat(SubSeq(s, 1, Len(s) - 1)) * 10 + DigitVal(s[Len(s)])

RECURSIVE NatToStr(_)
NatToStr(n) ==
  IF n < 10 THEN <<Digits[n + 1]>>
  ELSE NatToStr(n \div 10) \o <<Digits[(n % 10) + 1]>>

Pad2(n) == <<Digits[(n \div 10) + 1], Digits[(n % 10) + 1]>>

IsLeap(y) == (y % 4 = 0 /\ y % 100 # 0) \/ y % 400 = 0

DaysInMonth(y, m) ==
  IF m = 2 THEN (IF IsLeap(y) THEN 29 ELSE 28)
  ELSE IF m \in {4, 6, 9, 11} THEN 30
  ELSE 31

\* The regular expressions strptime builds for %m and %d.
MonthToken(t) ==
  \/ Len(t) = 2 /\ t[1] = "1" /\ t[2] \in {"0", "1", "2"}
  \/ Len(t) = 2 /\ t[1] = "0" /\ IsDigit(t[2]) /\ t[2] # "0"
  \/ Len(t) = 1 /\ IsDigit(t[1]) /\ t[1] # "0"

DayToken(t) ==
  \/ Len(t) = 2 /\ t[1] = "3" /\ t[2] \in {"0", "1"}
  \/ Len(t) = 2 /\ t[1] \in {"1", "2"} /\ IsDigit(t[2])
  \/ Len(t) = 2 /\ t[1] = "0" /\ IsDigit(t[2]) /\ t[2] # "0"
  \/ Len(t) = 1 /\ IsDigit(t[1]) /\ t[1] # "0"

NoDate == [ok |-> FALSE, y |-> 0, m |-> 0, d |-> 0]

\* datetime.strptime(s, "%Y-%m-%d"): ok is FALSE where Python raises ValueError.
Strptime(s) ==
  IF Len(s) < 8 \/ Len(s) > 10 THEN NoDate
  ELSE IF ~(\A i \in 1..4 : IsDigit(s[i])) \/ s[5] # "-" THEN NoDate
  ELSE LET r == SubSeq(s, 6, Len(s))
           k == IF r[2] = "-" THEN 2 ELSE 3
           mt == SubSeq(r, 1, k - 1)
           dt == SubSeq(r, k + 1, Len(r))
       IN IF r[k] # "-" \/ ~MonthToken(mt) \/ ~DayToken(dt) THEN NoDate
          ELSE LET y == StrToNat(SubSeq(s, 1, 4))
                   m == StrToNat(mt)
                   d == StrToNat(dt)
               IN IF y < 1 \/ d > DaysInMonth(y, m) THEN NoDate
                  ELSE [ok |-> TRUE, y |-> y, m |-> m, d |-> d]

NextDay(t) ==
  IF t.d < DaysInMonth(t.y, t.m) THEN [t EXCEPT !.d = t.d + 1]
  ELSE IF t.m < 12 THEN [t EXCEPT !.m = t.m + 1, !.d = 1]
  ELSE [t EXCEPT !.y = t.y + 1, !.m = 1, !.d = 1]

\* t + timedelta(days=n)
RECURSIVE AddDays(_, _)
AddDays(t, n) == IF n = 0 THEN t ELSE AddDays(NextDay(t), n - 1)

\* t.strftime("%Y-%m-%d"), for the years from 1000 on (below, the width of %Y
\* depends on the C library).
Strftime(t) == NatToStr(t.y) \o <<"-">> \o Pad2(t.m) \o <<"-">> \o Pad2(t.d)

(***************************************************************************)
(* JSON values of a request body or query string.  k is the kind of the    *)
(* value; a text is in s, a number in n.  A float counts tenths, so that   *)
(* JFloat(205) is 20.5.  The payloads sent are of these kinds: a field is  *)
(* left out, null, a text that is no numeral, an integer or a float.       *)
(***************************************************************************)
JAbsent == [k |-> "absent", s |-> <<>>, n |-> 0]
JNull == [k |-> "null", s |-> <<>>, n |-> 0]
JStr(s) == [k |-> "str", s |-> s, n |-> 0]
JInt(n) == [k |-> "int", s |-> <<>>, n |-> n]
JFloat(n) == [k |-> "float", s |-> <<>>, n |-> n]

\* Python truthiness of request.args.get(...): None and "" are falsy.
Truthy(v) == v.k = "str" /\ v.s # <<>>

(***************************************************************************)
(* The marshmallow schemas: the load fields, their type and whether they   *)
(* are required.                                                           *)
(***************************************************************************)
WorkoutSchema ==
  [name |-> [kind |-> "str", required |-> TRUE],
   sets |-> [kind |-> "int", required |-> TRUE],
   reps |-> [kind |-> "int", required |-> TRUE],
   date |-> [kind |-> "str", required |-> TRUE]]

DietSchema ==
  [name |-> [kind |-> "str", required |-> TRUE],
   calories |-> [kind |-> "int", required |-> TRUE],
   date |-> [kind |-> "str", required |-> TRUE],
   protein |-> [kind |-> "float", required |-> FALSE],
   carbs |-> [kind |-> "float", required |-> FALSE],
   fats |-> [kind |-> "float", required |-> FALSE]]

\* Whether a field of the schema rejects the value v: a required field left
\* out, a null (no field allows None), or a value of another type.  No field
\* carries a validator, so any text and any integer passes.
FieldInvalid(field, v) ==
  IF v.k = "absent" THEN field.required
  ELSE IF v.k = "null" THEN TRUE
  ELSE IF field.kind = "str" THEN v.k # "str"
  ELSE IF field.kind = "int" THEN v.k # "int"
  ELSE v.k \notin {"int", "float"}

\* A validation that stops at the first offending field.
SchemaErrorsFirst(schema, p) ==
  LET all == {f \in DOMAIN schema : FieldInvalid(schema[f], p[f])}
  IN IF all = {} THEN {} ELSE {CHOOSE f \in all : TRUE}

\* ValidationError.messages: one entry per offending field.
SchemaErrors(schema, p) ==
  {f \in DOMAIN schema : FieldInvalid(schema[f], p[f])}

\* fields.Float deserialises with float(): an integer becomes n.0.
FloatValue(v) == IF v.k = "int" THEN JFloat(v.n * 10) ELSE v

\* data.get(f) of a loaded payload: None for a field left out.
DataGet(v) == IF v.k = "absent" THEN JNull ELSE FloatValue(v)

(***************************************************************************)
(* The tables.  A table is the sequence of its rows in rowid order, which  *)
(* is the order Query.all() returns them in.                               *)
(***************************************************************************)
RECURSIVE MaxId(_)
MaxId(table) ==
  IF table = <<>> THEN 0
  ELSE LET m == MaxId(Tail(table))
       IN IF Head(table).id > m THEN Head(table).id ELSE m

\* id = Column(Integer, primary_key=True) on SQLite, without AUTOINCREMENT:
\* the rowid of an inserted row is one more than the largest rowid in the
\* table, and 1 in an empty table.
NewRowid(table) == MaxId(table) + 1

\* Workout(**data), after the insert has assigned its id.
Workout(id, p) ==
  [id |-> id, name |-> p.name.s, sets |-> p.sets.n, reps |-> p.reps.n,
   date |-> p.date.s]

\* Diet(**data): a column the data does not name is None.
Diet(id, p) ==
  [id |-> id, name |-> p.name.s, calories |-> p.calories.n, date |-> p.date.s,
   protein |-> DataGet(p.protein), carbs |-> DataGet(p.carbs),
   fats |-> DataGet(p.fats)]

\* db.session.add(row); db.session.commit()
SessionAdd(table, row) == Append(table, row)

\* A delete that is never committed.
SessionDeleteUncommitted(table, id) == table

\* db.session.delete(row); db.session.commit()
RECURSIVE SessionDelete(_, _)
SessionDelete(table, id) ==
  IF table = <<>> THEN <<>>
  ELSE IF Head(table).id = id THEN SessionDelete(Tail(table), id)
  ELSE <<Head(table)>> \o SessionDelete(Tail(table), id)

\* Query.get(id) finds a row.
Exists(table, id) == \E i \in 1..Len(table) : table[i].id = id

\* A listing that drops the filter.
FilterByDateAll(table, date) == table

\* Query.filter_by(date=date).all()
RECURSIVE FilterByDate(_, _)
FilterByDate(table, date) ==
  IF table = <<>> THEN <<>>
  ELSE IF Head(table).date = date
  THEN <<Head(table)>> \o FilterByDate(Tail(table), date)
  ELSE FilterByDate(Tail(table), date)

\* An update that keeps the stored optional value where the payload has none
\* (data.get(f, diet.f)).
UpdateRowKeep(table, id, p) ==
  [i \in 1..Len(table) |->
     IF table[i].id = id
     THEN [table[i] EXCEPT !.name = p.name.s,
                           !.calories = p.calories.n,
                           !.date = p.date.s,
                           !.protein = IF p.protein.k = "absent" THEN @ ELSE DataGet(p.protein),
                           !.carbs = IF p.carbs.k = "absent" THEN @ ELSE DataGet(p.carbs),
                           !.fats = IF p.fats.k = "absent" THEN @ ELSE DataGet(p.fats)]
     ELSE table[i]]

\* The assignments of update_diet to the row with this id, committed.
UpdateRow(table, id, p) ==
  [i \in 1..Len(table) |->
     IF table[i].id = id
     THEN [table[i] EXCEPT !.name = p.name.s,
                           !.calories = p.calories.n,
                           !.date = p.date.s,
                           !.protein = DataGet(p.protein),
                           !.carbs = DataGet(p.carbs),
                           !.fats = DataGet(p.fats)]
     ELSE table[i]]

RowOf(table, id) == table[CHOOSE i \in 1..Len(table) : table[i].id = id]

\* sum(w.sets for w in workouts), sum(w.reps for w in workouts)
RECURSIVE SumSets(_)
SumSets(rows) == IF rows = <<>> THEN 0 ELSE Head(rows).sets + SumSets(Tail(rows))

RECURSIVE SumReps(_)
SumReps(rows) == IF rows = <<>> THEN 0 ELSE Head(rows).reps + SumReps(Tail(rows))

\* len(set(w.name for w in workouts))
UniqueExercises(rows) == Cardinality({rows[i].name : i \in 1..Len(rows)})

\* Workout.query.filter(Workout.date.between(start, end)).all()
RECURSIVE WeeklyRows(_, _, _)
WeeklyRows(table, start, end) ==
  IF table = <<>> THEN <<>>
  ELSE IF Between(Head(table).date, Strftime(start), Strftime(end))
  THEN <<Head(table)>> \o WeeklyRows(Tail(table), start, end)
  ELSE WeeklyRows(Tail(table), start, end)

\* Workout.query.filter(Workout.date.like(f"{month}-%")).all()
RECURSIVE MonthlyRows(_, _)
MonthlyRows(table, month) ==
  IF table = <<>> THEN <<>>
  ELSE IF Like(Head(table).date, month \o <<"-", "%">>)
  THEN <<Head(table)>> \o MonthlyRows(Tail(table), month)
  ELSE MonthlyRows(Tail(table), month)

(***************************************************************************)
(* The requests sent.                                                      *)
(***************************************************************************)
D0102 == <<"2", "0", "2", "4", "-", "0", "1", "-", "0", "2">>
D0108 == <<"2", "0", "2", "4", "-", "0", "1", "-", "0", "8">>
D1227 == <<"2", "0", "2", "3", "-", "1", "2", "-", "2", "7">>
D0230 == <<"2", "0", "2", "4", "-", "0", "2", "-", "3", "0">>
DShort == <<"2", "0", "2", "4", "-", "1", "-", "2">>
DBad == <<"x", "-", "1">>
M01 == <<"2", "0", "2", "4", "-", "0", "1">>
M0x == <<"2", "0", "2", "4", "-", "0", "_">>
MAny == <<"%">>
MUpper == <<"X">>

WorkoutPayloads ==
  { [name |-> JStr(<<"a">>), sets |-> JInt(3), reps |-> JInt(5), date |-> JStr(D0102)],
    [name |-> JStr(<<>>), sets |-> JInt(-1), reps |-> JInt(0), date |-> JStr(DBad)],
    [name |-> JStr(<<"a">>), sets |-> JInt(3), reps |-> JAbsent, date |-> JStr(D0102)],
    [name |-> JInt(7), sets |-> JStr(<<"x">>), reps |-> JNull, date |-> JStr(D0102)],
    [name |-> JAbsent, sets |-> JAbsent, reps |-> JAbsent, date |-> JAbsent] }

DietPayloads ==
  { [name |-> JStr(<<"f">>), calories |-> JInt(100), date |-> JStr(D0102),
     protein |-> JFloat(205), carbs |-> JInt(30), fats |-> JFloat(15)],
    [name |-> JStr(<<"g">>), calories |-> JInt(200), date |-> JStr(D0108),
     protein |-> JAbsent, carbs |-> JAbsent, fats |-> JAbsent],
    [name |-> JStr(<<"f">>), calories |-> JAbsent, date |-> JStr(D0102),
     protein |-> JFloat(205), carbs |-> JAbsent, fats |-> JAbsent],
    [name |-> JInt(7), calories |-> JStr(<<"x">>), date |-> JStr(D0108),
     protein |-> JStr(<<"x">>), carbs |-> JNull, fats |-> JAbsent] }

DateArgs == {JAbsent, JStr(<<>>), JStr(D0102), JStr(D0108)}

StartDateArgs ==
  {JAbsent, JStr(<<>>), JStr(D0102), JStr(D1227), JStr(DShort), JStr(D0230)}

MonthArgs == {JAbsent, JStr(<<>>), JStr(M01), JStr(M0x), JStr(MAny), JStr(MUpper)}

DietIds == 1..MaxDietId

NoPayload == [none |-> JAbsent]

Request(op, id, payload, arg) ==
  [op |-> op, id |-> id, payload |-> payload, arg |-> arg]

\* The JSON body of a response.  Every body is a record of one shape, of which
\* kind says what the handler sent: a record (in rows, alone), a list of
\* records (rows), the messages of a ValidationError (errors, the offending
\* fields), an error or a message (text, and the id it names), or a summary.
NoSummary ==
  [total_sets |-> 0, total_reps |-> 0, unique_exercises |-> 0, month |-> <<>>,
   start_date |-> <<>>, end_date |-> <<>>]

NoBody ==
  [kind |-> "none", rows |-> <<>>, errors |-> {}, text |-> "", id |-> 0,
   summary |-> NoSummary]

JsonRecord(row) == [NoBody EXCEPT !.kind = "record", !.rows = <<row>>]
JsonList(rows) == [NoBody EXCEPT !.kind = "list", !.rows = rows]
JsonErrors(errors) == [NoBody EXCEPT !.kind = "errors", !.errors = errors]
JsonError(text) == [NoBody EXCEPT !.kind = "error", !.text = text]
JsonMessage(text, id) == [NoBody EXCEPT !.kind = "message", !.text = text, !.id = id]
JsonSummary(summary) == [NoBody EXCEPT !.kind = "summary", !.summary = summary]

Response(status, body) == [status |-> status, body |-> body]

(***************************************************************************)
(* The state after construction: db.create_all() on an empty database,     *)
(* no request served yet.                                                  *)
(***************************************************************************)
Init ==
  /\ workouts = <<>>
  /\ diets = <<>>
  /\ assignedW = {}
  /\ assignedD = {}
  /\ req = Request("none", 0, NoPayload, JAbsent)
  /\ resp = Response(0, NoBody)
  /\ prevWorkouts = <<>>
  /\ prevDiets = <<>>
  /\ lastDeleted = 0

\* One request served: what was asked, what was answered, and the tables
\* before and after.  lastDeleted is the id the request before this one
\* deleted (0 if it deleted none).
Serve(rq, rs, w, d) ==
  /\ req' = rq
  /\ resp' = rs
  /\ prevWorkouts' = workouts
  /\ prevDiets' = diets
  /\ workouts' = w
  /\ diets' = d
  /\ lastDeleted' = IF req.op = "delete_diet" /\ resp.status = 200 THEN req.id ELSE 0

(***************************************************************************)
(* The handlers.                                                           *)
(***************************************************************************)
\* GET /
home ==
  /\ Serve(Request("home", 0, NoPayload, JAbsent),
           Response(200, JsonMessage("API", 0)), workouts, diets)
  /\ UNCHANGED <<assignedW, assignedD>>

\* POST /workouts
add_workout(p) ==
  LET errors == SchemaErrors(WorkoutSchema, p)
      workout == Workout(NewRowid(workouts), p)
      rq == Request("add_workout", 0, p, JAbsent)
  IN IF errors # {}
     THEN /\ Serve(rq, Response(400, JsonErrors(errors)), workouts, diets)
          /\ UNCHANGED <<assignedW, assignedD>>
     ELSE /\ Len(workouts) < MaxWorkouts
          /\ Serve(rq, Response(201, JsonRecord(workout)), SessionAdd(workouts, workout), diets)
          /\ assignedW' = assignedW \cup {workout.id}
          /\ UNCHANGED assignedD

\* GET /workouts
get_workouts(date) ==
  LET rows == IF Truthy(date) THEN FilterByDate(workouts, date.s) ELSE workouts
  IN /\ Serve(Request("get_workouts", 0, NoPayload, date),
              Response(200, JsonList(rows)), workouts, diets)
     /\ UNCHANGED <<assignedW, assignedD>>

\* The answer of GET /workouts/summary/weekly.  The query and the sums are
\* computed, and then the response is built from start_date.strftime(...):
\* start_date is the query string, a str, which has no strftime, so Python
\* raises AttributeError; the handler catches ValueError only and the
\* request ends in a 500.
weekly_response(table, start_date) ==
  IF ~Truthy(start_date) THEN Response(400, JsonError("start_date is required"))
  ELSE LET start == Strptime(start_date.s)
       IN IF ~start.ok THEN Response(400, JsonError("Invalid start_date format"))
          ELSE LET end == AddDays(start, 6)
                   rows == WeeklyRows(table, start, end)
                   total_sets == SumSets(rows)
                   total_reps == SumReps(rows)
                   unique_exercises == UniqueExercises(rows)
               IN Response(500, JsonError("AttributeError"))

\* GET /workouts/summary/weekly
weekly_summary(start_date) ==
  /\ Serve(Request("weekly_summary", 0, NoPayload, start_date),
           weekly_response(workouts, start_date), workouts, diets)
  /\ UNCHANGED <<assignedW, assignedD>>

\* The answer of GET /workouts/summary/monthly.
monthly_response(table, month) ==
  IF ~Truthy(month) THEN Response(400, JsonError("month is required"))
  ELSE LET rows == MonthlyRows(table, month.s)
       IN Response(200, JsonSummary([NoSummary EXCEPT
                                       !.total_sets = SumSets(rows),
                                       !.total_reps = SumReps(rows),
                                       !.unique_exercises = UniqueExercises(rows),
                                       !.month = month.s]))

\* GET /workouts/summary/monthly
monthly_summary(month) ==
  /\ Serve(Request("monthly_summary", 0, NoPayload, month),
           monthly_response(workouts, month), workouts, diets)
  /\ UNCHANGED <<assignedW, assignedD>>

\* POST /diets
add_diet(p) ==
  LET errors == SchemaErrors(DietSchema, p)
      diet == Diet(NewRowid(diets), p)
      rq == Request("add_diet", 0, p, JAbsent)
  IN IF errors # {}
     THEN /\ Serve(rq, Response(400, JsonErrors(errors)), workouts, diets)
          /\ UNCHANGED <<assignedW, assignedD>>
     ELSE /\ Len(diets) < MaxDiets
          /\ diet.id <= MaxDietId
          /\ Serve(rq, Response(201, JsonRecord(diet)), workouts, SessionAdd(diets, diet))
          /\ assignedD' = assignedD \cup {diet.id}
          /\ UNCHANGED assignedW

\* GET /diets
get_diets(date) ==
  LET rows == IF Truthy(date) THEN FilterByDate(diets, date.s) ELSE diets
  IN /\ Serve(Request("get_diets", 0, NoPayload, date),
              Response(200, JsonList(rows)), workouts, diets)
     /\ UNCHANGED <<assignedW, assignedD>>

\* An update that loads the payload before it looks the id up.
update_diet_validate_first(id, p) ==
  LET errors == SchemaErrors(DietSchema, p)
      rq == Request("update_diet", id, p, JAbsent)
  IN /\ IF errors # {}
        THEN Serve(rq, Response(400, JsonErrors(errors)), workouts, diets)
        ELSE IF ~Exists(diets, id)
        THEN Serve(rq, Response(404, JsonError("Not Found")), workouts, diets)
        ELSE LET updated == UpdateRow(diets, id, p)
             IN Serve(rq, Response(200, JsonRecord(RowOf(updated, id))), workouts, updated)
     /\ UNCHANGED <<assignedW, assignedD>>

\* PUT /diets/<id>
update_diet(id, p) ==
  LET errors == SchemaErrors(DietSchema, p)
      rq == Request("update_diet", id, p, JAbsent)
  IN /\ IF ~Exists(diets, id)
        THEN Serve(rq, Response(404, JsonError("Not Found")), workouts, diets)
        ELSE IF errors # {}
        THEN Serve(rq, Response(400, JsonErrors(errors)), workouts, diets)
        ELSE LET updated == UpdateRow(diets, id, p)
             IN Serve(rq, Response(200, JsonRecord(RowOf(updated, id))), workouts, updated)
     /\ UNCHANGED <<assignedW, assignedD>>

\* A delete copied from a workout handler: it looks up and deletes in the
\* workouts table.
delete_diet_on_workouts(id) ==
  LET rq == Request("delete_diet", id, NoPayload, JAbsent)
  IN /\ IF ~Exists(workouts, id)
        THEN Serve(rq, Response(404, JsonError("Not Found")), workouts, diets)
        ELSE Serve(rq, Response(200, JsonMessage("Diet deleted", id)),
                   SessionDelete(workouts, id), diets)
     /\ UNCHANGED <<assignedW, assignedD>>

\* DELETE /diets/<id>
delete_diet(id) ==
  LET rq == Request("delete_diet", id, NoPayload, JAbsent)
  IN /\ IF ~Exists(diets, id)
        THEN Serve(rq, Response(404, JsonError("Not Found")), workouts, diets)
        ELSE Serve(rq, Response(200, JsonMessage("Diet deleted", id)),
                   workouts, SessionDelete(diets, id))
     /\ UNCHANGED <<assignedW, assignedD>>

Next ==
  \/ home
  \/ \E p \in WorkoutPayloads : add_workout(p)
  \/ \E date \in DateArgs : get_workouts(date)
  \/ \E start_date \in StartDateArgs : weekly_summary(start_date)
  \/ \E month \in MonthArgs : monthly_summary(month)
  \/ \E p \in DietPayloads : add_diet(p)
  \/ \E date \in DateArgs : get_diets(date)
  \/ \E id \in DietIds, p \in DietPayloads : update_diet(id, p)
  \/ \E id \in DietIds : delete_diet(id)

Spec == Init /\ [][Next]_vars

(***************************************************************************)
(* The data model and the vocabulary the properties are stated in.         *)
(***************************************************************************)
\* A text of the form YYYY-MM-DD.
DateForm(s) ==
  /\ Len(s) = 10
  /\ \A i \in {1, 2, 3, 4, 6, 7, 9, 10} : IsDigit(s[i])
  /\ s[5] = "-"
  /\ s[8] = "-"

\* A well-formed start_date: of the form YYYY-MM-DD and a day of the calendar.
WellFormedDate(s) == DateForm(s) /\ Strptime(s).ok

\* The days of the inclusive window [start, start + 6 days], as YYYY-MM-DD.
WindowDays(s) == {Strftime(AddDays(Strptime(s), n)) : n \in 0..6}

\* The type the data model gives each field, and whether it is required.
WorkoutModel ==
  [name |-> <<"str", TRUE>>, sets |-> <<"int", TRUE>>, reps |-> <<"int", TRUE>>,
   date |-> <<"str", TRUE>>]

DietModel ==
  [name |-> <<"str", TRUE>>, calories |-> <<"int", TRUE>>, date |-> <<"str", TRUE>>,
   protein |-> <<"float", FALSE>>, carbs |-> <<"float", FALSE>>,
   fats |-> <<"float", FALSE>>]

HasType(type, v) ==
  \/ type = "str" /\ v.k = "str"
  \/ type = "int" /\ v.k = "int"
  \/ type = "float" /\ v.k \in {"int", "float"}

\* The offending fields of a payload: a required field missing, or a field
\* present with a value of the wrong type.
Offending(model, p) ==
  {f \in DOMAIN model :
     IF p[f].k = "absent" THEN model[f][2] ELSE ~HasType(model[f][1], p[f])}

\* The number a JSON value stands for, in tenths.
Tenths(v) == IF v.k = "int" THEN v.n * 10 ELSE v.n

\* A stored optional value equals the payload's: null where the payload has
\* none, the same number where it has one.
OptionalEquals(stored, v) ==
  IF v.k = "absent" THEN stored = JNull
  ELSE stored.k = "float" /\ stored.n = Tenths(v)

IsPrefix(s, t) == Len(s) <= Len(t) /\ SubSeq(t, 1, Len(s)) = s

GetOps == {"home", "get_workouts", "weekly_summary", "monthly_summary", "get_diets"}
WorkoutOps == {"add_workout", "get_workouts", "weekly_summary", "monthly_summary"}
DietOps == {"add_diet", "get_diets", "update_diet", "delete_diet"}

(***************************************************************************)
(* The properties.                                                         *)
(***************************************************************************)
\* C1: for every stored set of workouts and every well-formed start_date,
\* GET /workouts/summary/weekly answers 200 with the sums of sets and reps and
\* the number of distinct names over exactly the workouts dated within
\* [start_date, start_date + 6 days], and with the two ends of that window.
C1_WeeklySummary ==
  (req.op = "weekly_summary" /\ req.arg.k = "str" /\ WellFormedDate(req.arg.s)) =>
    /\ resp.status = 200
    /\ LET rows == SelectSeq(prevWorkouts, LAMBDA r : r.date \in WindowDays(req.arg.s))
       IN /\ resp.body.kind = "summary"
          /\ resp.body.summary.total_sets = SumSets(rows)
          /\ resp.body.summary.total_reps = SumReps(rows)
          /\ resp.body.summary.unique_exercises = UniqueExercises(rows)
          /\ resp.body.summary.start_date = req.arg.s
          /\ resp.body.summary.end_date = Strftime(AddDays(Strptime(req.arg.s), 6))

\* C2: identifiers are never reused: the id a successful POST /workouts or
\* POST /diets returns differs from every id assigned before in the same
\* collection, the ids of deleted diet records included.
C2_IdsNeverReused ==
  [][ /\ (req'.op = "add_workout" /\ resp'.status = 201) => resp'.body.rows[1].id \notin assignedW
      /\ (req'.op = "add_diet" /\ resp'.status = 201) => resp'.body.rows[1].id \notin assignedD ]_vars

C4_DeleteTwice ==
  /\ (req.op = "delete_diet" /\ Exists(prevDiets, req.id)) =>
       /\ resp.status = 200
       /\ LET k == CHOOSE i \in 1..Len(prevDiets) : prevDiets[i].id = req.id
          IN diets = SubSeq(prevDiets, 1, k - 1) \o SubSeq(prevDiets, k + 1, Len(prevDiets))
       /\ ~Exists(diets, req.id)
  /\ (req.op = "delete_diet" /\ lastDeleted # 0 /\ req.id = lastDeleted) =>
       /\ resp.status = 404
       /\ diets = prevDiets
       /\ workouts = prevWorkouts

\* The second DELETE of an id, right after the first took it out of two records.
C4_Witness ==
  /\ req.op = "delete_diet"
  /\ lastDeleted # 0
  /\ req.id = lastDeleted
  /\ resp.status = 404
  /\ Len(diets) = 1

\* C5: for every non-empty month, GET /workouts/summary/monthly answers 200
\* and aggregates exactly the workouts whose date begins with the literal
\* text "{month}-", and echoes month back.
C5_MonthlyPrefix ==
  (req.op = "monthly_summary" /\ req.arg.k = "str" /\ req.arg.s # <<>>) =>
    /\ resp.status = 200
    /\ LET rows == SelectSeq(prevWorkouts,
                             LAMBDA r : StartsWith(r.date, req.arg.s \o <<"-">>))
       IN /\ resp.body.kind = "summary"
          /\ resp.body.summary.total_sets = SumSets(rows)
          /\ resp.body.summary.total_reps = SumReps(rows)
          /\ resp.body.summary.unique_exercises = UniqueExercises(rows)
          /\ resp.body.summary.month = req.arg.s

C7_ListExact ==
  /\ req.op = "get_workouts" =>
       /\ resp.status = 200
       /\ resp.body.kind = "list"
       /\ resp.body.rows = IF req.arg.k = "absent" THEN prevWorkouts
                           ELSE SelectSeq(prevWorkouts, LAMBDA r : r.date = req.arg.s)
  /\ req.op = "get_diets" =>
       /\ resp.status = 200
       /\ resp.body.kind = "list"
       /\ resp.body.rows = IF req.arg.k = "absent" THEN prevDiets
                           ELSE SelectSeq(prevDiets, LAMBDA r : r.date = req.arg.s)

\* C7, amended: with a non-empty date parameter the lists are, in storage
\* order, exactly the records whose date equals its value; with no date
\* parameter or an empty one they are all the records.
C7_ListNonEmptyDate ==
  /\ req.op = "get_workouts" =>
       /\ resp.status = 200
       /\ resp.body.kind = "list"
       /\ resp.body.rows = IF req.arg.k = "absent" \/ req.arg.s = <<>> THEN prevWorkouts
                           ELSE SelectSeq(prevWorkouts, LAMBDA r : r.date = req.arg.s)
  /\ req.op = "get_diets" =>
       /\ resp.status = 200
       /\ resp.body.kind = "list"
       /\ resp.body.rows = IF req.arg.k = "absent" \/ req.arg.s = <<>> THEN prevDiets
                           ELSE SelectSeq(prevDiets, LAMBDA r : r.date = req.arg.s)

\* A date filter keeps one of two stored workouts.
C7_Witness ==
  /\ req.op = "get_workouts"
  /\ req.arg.k = "str"
  /\ req.arg.s # <<>>
  /\ Len(prevWorkouts) = 2
  /\ Len(resp.body.rows) = 1

\* C8: every persisted workout has a non-empty name, sets and reps >= 0 and a
\* date of the form YYYY-MM-DD.
C8_WorkoutsWellFormed ==
  \A i \in 1..Len(workouts) :
    /\ workouts[i].name # <<>>
    /\ workouts[i].sets >= 0
    /\ workouts[i].reps >= 0
    /\ DateForm(workouts[i].date)

\* C9: a PUT /diets/{id} that does not answer 200 changes no stored record;
\* an unknown id answers 404 whether or not the payload is valid, and a known
\* id with an invalid payload answers 400 and keeps the record as it was.
C9_FailedUpdate ==
  req.op = "update_diet" =>
    /\ resp.status # 200 => (diets = prevDiets /\ workouts = prevWorkouts)
    /\ ~Exists(prevDiets, req.id) => resp.status = 404
    /\ (Exists(prevDiets, req.id) /\ Offending(DietModel, req.payload) # {}) =>
         /\ resp.status = 400
         /\ RowOf(diets, req.id) = RowOf(prevDiets, req.id)

\* An invalid payload sent to an unknown id, with a record stored.
C9_Witness ==
  /\ req.op = "update_diet"
  /\ ~Exists(prevDiets, req.id)
  /\ Offending(DietModel, req.payload) # {}
  /\ resp.status = 404
  /\ diets # <<>>

\* C10: workouts are append-only and the two collections are independent: no
\* request changes or removes a stored workout, no diet request changes the
\* workouts, no workout request changes the diets, and no GET changes either.
C10_Frame ==
  /\ IsPrefix(prevWorkouts, workouts)
  /\ req.op \in DietOps => workouts = prevWorkouts
  /\ req.op \in WorkoutOps => diets = prevDiets
  /\ req.op \in GetOps => (workouts = prevWorkouts /\ diets = prevDiets)

\* A diet record is deleted while two workouts are stored.
C10_Witness ==
  /\ req.op = "delete_diet"
  /\ resp.status = 200
  /\ Len(workouts) = 2
  /\ diets # prevDiets

====
